---- MODULE Spec2Model ----
(***************************************************************************)
(* The online voting system of src/app.py as a state machine.              *)
(*                                                                         *)
(* The state is the four tables of the database (users, elections,         *)
(* candidates, votes; a row's id is its index, as ids are autoincrement    *)
(* primary keys and no route deletes a row), the login session of each     *)
(* browser, the clock and the events emitted on the socket.  Every route   *)
(* is one action, and what it answers is an operator of the state and the  *)
(* request (a request that is refused leaves the state as it is).  Spec    *)
(* serves the requests one at a time; ConcSpec serves vote requests        *)
(* concurrently, the vote route split at its two database reads and its    *)
(* commit.                                                                 *)
(***************************************************************************)
EXTENDS Integers, Sequences, FiniteSets, TLC

\* ---------------------------------------------------------------- bounds
MaxUsers == 2
MaxElections == 2
MaxCandidates == 2
MaxVotes == 2
MaxTime == 2
NumSessions == 1
MaxInflight == 2
MaxResponses == 2

Usernames == {"admin", "alice"}
Emails == {"admin@votingsystem.com", "alice@example.com"}
Passwords == {"admin123", "secret1"}
NewPasswords == {"secret1"}
CandidateNames == {"A", "B"}

Time == 0..MaxTime
Sessions == 1..NumSessions
Slots == 1..MaxInflight
DateFormat == "%Y-%m-%d %H:%M"
BadDate == <<"tomorrow", 0>>
DateStrings == {<<DateFormat, t>> : t \in Time} \cup {BadDate}
ElectionIds == 1..MaxElections
CandidateIds == 1..MaxCandidates

VARIABLES users, elections, candidates, votes, current_user, now, emitted,
          inflight, api_key, llm, responses

vars == <<users, elections, candidates, votes, current_user, now, emitted,
          inflight, api_key, llm, responses>>

\* The conversational assistant of src/ai_assistant.py: its credential, its
\* language model and the messages it was given with what it returned.  No
\* route of src/app.py reaches it.
assistant == <<api_key, llm, responses>>

db == <<users, elections, candidates, votes>>

\* ------------------------------------------------------------ the tables
generate_password_hash(password) == <<"pbkdf2", password>>

\* A slip: any password is accepted for a stored hash.
check_password_hash_any(pwhash, password) == TRUE

check_password_hash(pwhash, password) == pwhash = <<"pbkdf2", password>>

User(username, email, password) ==
    [username |-> username, email |-> email,
     password_hash |-> generate_password_hash(password), is_admin |-> FALSE]

AdminUser ==
    [username |-> "admin", email |-> "admin@votingsystem.com",
     password_hash |-> generate_password_hash("admin123"), is_admin |-> TRUE]

Election(start_date, end_date, created_by) ==
    [start_date |-> start_date, end_date |-> end_date, is_active |-> TRUE,
     created_by |-> created_by]

Candidate(name, election_id) == [name |-> name, election_id |-> election_id]

Vote(voter_id, election_id, candidate_id) ==
    [voter_id |-> voter_id, election_id |-> election_id,
     candidate_id |-> candidate_id]

UserIds == 1..Len(users)

\* The unique=True columns of User: the commit of a row that repeats a
\* username or an email raises IntegrityError.
UniqueViolation(username, email) ==
    \E u \in UserIds : users[u].username = username \/ users[u].email = email

is_authenticated(s) == current_user[s] # 0

\* A slip: the admin routes let any logged-in user through.
is_admin_any_user(s) == current_user[s] \in UserIds

is_admin(s) == users[current_user[s]].is_admin

\* datetime.strptime(d, '%Y-%m-%d %H:%M'): the instant a well-formed string
\* names; ValueError on any other string.
ValueError(d) == d[1] # DateFormat

strptime(d) == d[2]

election_exists(election_id) == election_id \in 1..Len(elections)

\* ------------------------------------------------------------------ Init
None == "None"

Idle == [pc |-> "idle", voter_id |-> 0, election_id |-> 0, candidate_id |-> 0]

Init ==
    /\ users = <<AdminUser>>
    /\ elections = <<>>
    /\ candidates = <<>>
    /\ votes = <<>>
    /\ current_user = [s \in Sessions |-> 0]
    /\ now = 0
    /\ emitted = <<>>
    /\ inflight = [r \in Slots |-> Idle]
    /\ api_key = None
    /\ llm = None
    /\ responses = <<>>

\* ----------------------------------------------------------------- reads
\* A slip: the existing-vote query filters on the election alone.
existing_vote_of_anyone(voter_id, election_id) ==
    \E i \in 1..Len(votes) : votes[i].election_id = election_id

\* Vote.query.filter_by(voter_id=..., election_id=...).first() is not None
existing_vote(voter_id, election_id) ==
    \E i \in 1..Len(votes) :
        votes[i].voter_id = voter_id /\ votes[i].election_id = election_id

\* A slip: the election check forgets the end of the window.
not_active_no_end(election_id, t) ==
    \/ ~elections[election_id].is_active
    \/ t < elections[election_id].start_date

\* The election check of the vote route, with the clock at t.
not_active(election_id, t) ==
    \/ ~elections[election_id].is_active
    \/ t < elections[election_id].start_date
    \/ t > elections[election_id].end_date

\* A slip: the active-elections query forgets the end of the window.
active_filter_no_end(e) ==
    /\ elections[e].is_active
    /\ elections[e].start_date <= now

\* The filter of the active-elections query of index and progress.
active_filter(e) ==
    /\ elections[e].is_active
    /\ elections[e].start_date <= now
    /\ elections[e].end_date >= now

IdSeq(n) == [i \in 1..n |-> i]

\* Election.query.filter_by(is_active=True).filter(...).all(): the rows in
\* primary-key order, the query having no ORDER BY.
active_elections == SelectSeq(IdSeq(Len(elections)), active_filter)

\* election.candidates: the ids of the candidates whose election_id is e.
election_candidates(e) ==
    {c \in 1..Len(candidates) : candidates[c].election_id = e}

\* Vote.query.filter_by(candidate_id=c).count()
vote_count(c) == Cardinality({i \in 1..Len(votes) : votes[i].candidate_id = c})

\* len(election.votes)
election_votes(e) == Cardinality({i \in 1..Len(votes) : votes[i].election_id = e})

SetMax(S) == CHOOSE x \in S : \A y \in S : y <= x

\* The dict the results routes build: results[candidate.name] = vote_count
\* for each candidate of the election in turn, a later candidate of the
\* same name overwriting an earlier one.
results(e) ==
    [n \in {candidates[c].name : c \in election_candidates(e)} |->
        vote_count(SetMax({c \in election_candidates(e) : candidates[c].name = n}))]

RECURSIVE SumOver(_, _)
SumOver(f, S) ==
    IF S = {} THEN 0
    ELSE LET x == CHOOSE y \in S : TRUE IN f[x] + SumOver(f, S \ {x})

\* sum(results.values())
total_votes(e) == SumOver(results(e), DOMAIN results(e))

\* ---------------------------------------------------------------- writes
\* A slip: a voter's new vote replaces the votes they cast before.
add_vote_replacing(vote) ==
    Append(SelectSeq(votes, LAMBDA v : v.voter_id # vote.voter_id), vote)

\* db.session.add(vote); db.session.commit()
add_vote(vote) == Append(votes, vote)

\* A slip: the event carries the count of all the votes stored.
vote_update_all_votes(election_id, candidate_id, vs) ==
    [election_id |-> election_id, candidate_id |-> candidate_id,
     total_votes |-> Len(vs)]

\* The payload of the 'vote_update' event, built after the commit; vs is the
\* votes table after it, and total_votes is len(election.votes).
vote_update(election_id, candidate_id, vs) ==
    [election_id |-> election_id, candidate_id |-> candidate_id,
     total_votes |-> Cardinality({i \in 1..Len(vs) : vs[i].election_id = election_id})]

\* socketio.emit('vote_update', event): the event goes out, or the call
\* raises and nothing goes out (the request then ends in a 500 response,
\* after the commit).
emit(event, published) == IF published THEN Append(emitted, event) ELSE emitted

\* ---------------------------------------------------------------- routes
\* What each route answers.  "LoginRequired" is login_required's redirect to
\* the login page, "Unauthorized" the 'Access denied' redirect, "NotFound"
\* get_or_404's 404, "IntegrityError" the uncaught exception of a commit
\* that breaks a unique constraint (a 500 response); a "...Form" is the
\* page rendered for a GET or for a form that does not validate.
register_outcome(s, username, email, password, valid) ==
    IF is_authenticated(s) THEN "RedirectIndex"
    ELSE IF ~valid THEN "RegisterForm"
    ELSE IF UniqueViolation(username, email) THEN "IntegrityError"
    ELSE "Registered"

register(s, username, email, password, valid) ==
    /\ UNCHANGED <<elections, candidates, votes, current_user, now, emitted, inflight,
                   assistant>>
    /\ IF register_outcome(s, username, email, password, valid) = "Registered"
       THEN /\ Len(users) < MaxUsers
            /\ users' = Append(users, User(username, email, password))
       ELSE UNCHANGED users

\* User.query.filter_by(username=username).first(): 0 for None.
user_by_username(username) ==
    IF \E u \in UserIds : users[u].username = username
    THEN CHOOSE u \in UserIds : users[u].username = username
    ELSE 0

login_outcome(s, username, password, valid) ==
    IF is_authenticated(s) THEN "RedirectIndex"
    ELSE IF ~valid THEN "LoginForm"
    ELSE IF /\ user_by_username(username) # 0
            /\ check_password_hash(users[user_by_username(username)].password_hash,
                                   password)
    THEN "LoggedIn"
    ELSE "InvalidCredentials"

login(s, username, password, valid) ==
    /\ UNCHANGED <<db, now, emitted, inflight, assistant>>
    /\ IF login_outcome(s, username, password, valid) = "LoggedIn"
       THEN current_user' = [current_user EXCEPT ![s] = user_by_username(username)]
       ELSE UNCHANGED current_user

logout_outcome(s) == IF ~is_authenticated(s) THEN "LoginRequired" ELSE "LoggedOut"

logout(s) ==
    /\ UNCHANGED <<db, now, emitted, inflight, assistant>>
    /\ IF logout_outcome(s) = "LoggedOut"
       THEN current_user' = [current_user EXCEPT ![s] = 0]
       ELSE UNCHANGED current_user

vote_outcome(s, election_id, candidate_id) ==
    IF ~is_authenticated(s) THEN "LoginRequired"
    ELSE IF existing_vote(current_user[s], election_id) THEN "AlreadyVoted"
    ELSE IF ~election_exists(election_id) THEN "NotFound"
    ELSE IF not_active(election_id, now) THEN "ElectionClosed"
    ELSE "VoteCast"

vote(s, election_id, candidate_id) ==
    /\ UNCHANGED <<users, elections, candidates, current_user, now, inflight,
                   assistant>>
    /\ IF vote_outcome(s, election_id, candidate_id) = "VoteCast"
       THEN /\ Len(votes) < MaxVotes
            /\ votes' = add_vote(Vote(current_user[s], election_id, candidate_id))
            /\ \E published \in BOOLEAN :
                  emitted' = emit(vote_update(election_id, candidate_id, votes'),
                                  published)
       ELSE UNCHANGED <<votes, emitted>>

create_election_outcome(s, start, end, valid) ==
    IF ~is_authenticated(s) THEN "LoginRequired"
    ELSE IF ~is_admin(s) THEN "Unauthorized"
    ELSE IF ~valid THEN "ElectionForm"
    ELSE IF ValueError(start) \/ ValueError(end) THEN "InvalidDate"
    ELSE "ElectionCreated"

create_election(s, start, end, valid) ==
    /\ UNCHANGED <<users, candidates, votes, current_user, now, emitted, inflight,
                   assistant>>
    /\ IF create_election_outcome(s, start, end, valid) = "ElectionCreated"
       THEN /\ Len(elections) < MaxElections
            /\ elections' = Append(elections,
                   Election(strptime(start), strptime(end), current_user[s]))
       ELSE UNCHANGED elections

\* A slip: candidates are accepted only while the election is open.
manage_candidates_outcome_open_only(s, election_id, name, valid) ==
    IF ~is_authenticated(s) THEN "LoginRequired"
    ELSE IF ~is_admin(s) THEN "Unauthorized"
    ELSE IF ~election_exists(election_id) THEN "NotFound"
    ELSE IF not_active(election_id, now) THEN "ElectionClosed"
    ELSE IF ~valid THEN "CandidateForm"
    ELSE "CandidateAdded"

manage_candidates_outcome(s, election_id, name, valid) ==
    IF ~is_authenticated(s) THEN "LoginRequired"
    ELSE IF ~is_admin(s) THEN "Unauthorized"
    ELSE IF ~election_exists(election_id) THEN "NotFound"
    ELSE IF ~valid THEN "CandidateForm"
    ELSE "CandidateAdded"

manage_candidates(s, election_id, name, valid) ==
    /\ UNCHANGED <<users, elections, votes, current_user, now, emitted, inflight,
                   assistant>>
    /\ IF manage_candidates_outcome(s, election_id, name, valid) = "CandidateAdded"
       THEN /\ Len(candidates) < MaxCandidates
            /\ candidates' = Append(candidates, Candidate(name, election_id))
       ELSE UNCHANGED candidates

election_results_outcome(s, election_id) ==
    IF ~is_authenticated(s) THEN "LoginRequired"
    ELSE IF ~is_admin(s) THEN "Unauthorized"
    ELSE IF ~election_exists(election_id) THEN "NotFound"
    ELSE "ResultsPage"

\* The read-only routes: they answer from the state and leave it as it is.
election_results(s, election_id) == UNCHANGED vars

api_election_results(election_id) == UNCHANGED vars

index == UNCHANGED vars

progress(s) == UNCHANGED vars

\* datetime.utcnow() moves on between requests.
Tick ==
    /\ now < MaxTime
    /\ now' = now + 1
    /\ UNCHANGED <<db, current_user, emitted, inflight, assistant>>

\* ------------------------------------------- requests served one at a time
\* A request is a form that validates, with any input, or one that does not
\* (or a GET), which no route reads further.
Register ==
    \/ \E s \in Sessions, u \in Usernames, e \in Emails, p \in NewPasswords :
          register(s, u, e, p, TRUE)
    \/ \E s \in Sessions : register(s, "", "", "", FALSE)

Login ==
    \/ \E s \in Sessions, u \in Usernames, p \in Passwords : login(s, u, p, TRUE)
    \/ \E s \in Sessions : login(s, "", "", FALSE)

Logout == \E s \in Sessions : logout(s)

CastVote == \E s \in Sessions, e \in ElectionIds, c \in CandidateIds : vote(s, e, c)

CreateElection ==
    \/ \E s \in Sessions, start \in DateStrings, end \in DateStrings :
          create_election(s, start, end, TRUE)
    \/ \E s \in Sessions : create_election(s, BadDate, BadDate, FALSE)

ManageCandidates ==
    \/ \E s \in Sessions, e \in ElectionIds, n \in CandidateNames :
          manage_candidates(s, e, n, TRUE)
    \/ \E s \in Sessions, e \in ElectionIds : manage_candidates(s, e, "", FALSE)

ElectionResults == \E s \in Sessions, e \in ElectionIds : election_results(s, e)

ApiElectionResults == \E e \in ElectionIds : api_election_results(e)

Index == index

Progress == \E s \in Sessions : progress(s)

Next ==
    \/ Register
    \/ Login
    \/ Logout
    \/ CastVote
    \/ CreateElection
    \/ ManageCandidates
    \/ ElectionResults
    \/ ApiElectionResults
    \/ Index
    \/ Progress
    \/ Tick

Spec == Init /\ [][Next]_vars

\* ------------------------------------------ vote requests served at once
\* The vote route as the server runs it when requests overlap: the read of
\* the voter's existing vote, the read of the election, and the insert with
\* its commit are three steps, and steps of other requests come between.
\* inflight[r] is the request worker r is serving and where it stands.
Busy == {r \in Slots : inflight[r].pc # "idle"}

\* login_required and the existing-vote check.
vote_begin(r, s, election_id, candidate_id) ==
    /\ inflight[r].pc = "idle"
    /\ Len(votes) + Cardinality(Busy) < MaxVotes
    /\ is_authenticated(s)
    /\ ~existing_vote(current_user[s], election_id)
    /\ inflight' = [inflight EXCEPT ![r] =
           [pc |-> "election", voter_id |-> current_user[s],
            election_id |-> election_id, candidate_id |-> candidate_id]]
    /\ UNCHANGED <<db, current_user, now, emitted, assistant>>

\* get_or_404 and the check that the election is active.
vote_election(r) ==
    /\ inflight[r].pc = "election"
    /\ inflight' = [inflight EXCEPT ![r] =
           IF \/ ~election_exists(inflight[r].election_id)
              \/ not_active(inflight[r].election_id, now)
           THEN Idle
           ELSE [inflight[r] EXCEPT !.pc = "commit"]]
    /\ UNCHANGED <<db, current_user, now, emitted, assistant>>

\* The insert, the commit and the emit.
vote_commit(r) ==
    /\ inflight[r].pc = "commit"
    /\ votes' = add_vote(Vote(inflight[r].voter_id, inflight[r].election_id,
                              inflight[r].candidate_id))
    /\ \E published \in BOOLEAN :
          emitted' = emit(vote_update(inflight[r].election_id,
                                      inflight[r].candidate_id, votes'), published)
    /\ inflight' = [inflight EXCEPT ![r] = Idle]
    /\ UNCHANGED <<users, elections, candidates, current_user, now, assistant>>

VoteBegin == \E r \in Slots, s \in Sessions, e \in ElectionIds, c \in CandidateIds :
                vote_begin(r, s, e, c)

VoteElection == \E r \in Slots : vote_election(r)

VoteCommit == \E r \in Slots : vote_commit(r)

ConcNext ==
    \/ Login
    \/ Logout
    \/ CreateElection
    \/ Tick
    \/ VoteBegin
    \/ VoteElection
    \/ VoteCommit

ConcSpec == Init /\ [][ConcNext]_vars


\* ------------------------------------------------- the assistant's replies
\* Text is a sequence of characters, so that lower-casing and the search of
\* a word in a message are computed as str.lower and "in" compute them.
Upper ==
    <<"A", "B", "C", "D", "E", "F", "G", "H", "I", "J", "K", "L", "M",
      "N", "O", "P", "Q", "R", "S", "T", "U", "V", "W", "X", "Y", "Z">>

Lower ==
    <<"a", "b", "c", "d", "e", "f", "g", "h", "i", "j", "k", "l", "m",
      "n", "o", "p", "q", "r", "s", "t", "u", "v", "w", "x", "y", "z">>

lower_char(c) ==
    IF \E k \in 1..Len(Upper) : Upper[k] = c
    THEN Lower[CHOOSE k \in 1..Len(Upper) : Upper[k] = c]
    ELSE c

lower(text) == [k \in 1..Len(text) |-> lower_char(text[k])]

word_in(word, message) ==
    \E k \in 0..(Len(message) - Len(word)) :
        \A j \in 1..Len(word) : message[k + j] = word[j]

any_word_in(words, message) == \E k \in 1..Len(words) : word_in(words[k], message)

\* The replies are the source's texts without their pictographs.
FallbackTable ==
    <<
      [words |-> <<<<"r", "e", "g", "i", "s", "t", "e", "r">>,
                 <<"s", "i", "g", "n", " ", "u", "p">>,
                 <<"c", "r", "e", "a", "t", "e", " ", "a", "c", "c", "o", "u", "n", "t">>>>,
       reply |-> "To register: 1) Click 'Register' in top navigation 2) Enter email 3) Create username/password 4) Verify email 5) Start voting! Need help with any step?"],
      [words |-> <<<<"v", "o", "t", "e">>,
                 <<"c", "a", "s", "t", " ", "v", "o", "t", "e">>,
                 <<"e", "l", "e", "c", "t", "i", "o", "n">>>>,
       reply |-> "Voting Process: 1) Login 2) Browse active elections 3) Select election 4) View candidates 5) Click 'Vote for [Candidate]' 6) Confirm choice. Your vote is encrypted and secure!"],
      [words |-> <<<<"l", "o", "g", "i", "n">>,
                 <<"s", "i", "g", "n", " ", "i", "n">>>>,
       reply |-> "To login: 1) Click 'Login' 2) Enter username/email 3) Enter password 4) Click 'Login'. Forgot password? Contact support."],
      [words |-> <<<<"c", "h", "a", "n", "g", "e", " ", "v", "o", "t", "e">>,
                 <<"m", "o", "d", "i", "f", "y", " ", "v", "o", "t", "e">>>>,
       reply |-> "Votes cannot be changed once submitted to maintain election integrity. Please review carefully before confirming."],
      [words |-> <<<<"h", "o", "w", " ", "l", "o", "n", "g">>,
                 <<"d", "u", "r", "a", "t", "i", "o", "n">>,
                 <<"t", "i", "m", "e">>>>,
       reply |-> "Election duration varies: Student Council (7-10 days), Department polls (3-5 days), Quick surveys (24-48 hours)."],
      [words |-> <<<<"s", "e", "c", "u", "r", "e">>,
                 <<"s", "a", "f", "e">>,
                 <<"p", "r", "i", "v", "a", "c", "y">>,
                 <<"e", "n", "c", "r", "y", "p", "t", "i", "o", "n">>>>,
       reply |-> "Security Features: Advanced encryption, Anonymous voting, Blockchain verification, Audit trails, No vote modification. Your vote is completely secure!"],
      [words |-> <<<<"h", "e", "l", "p">>,
                 <<"s", "u", "p", "p", "o", "r", "t">>,
                 <<"a", "s", "s", "i", "s", "t">>,
                 <<"h", "l", "p">>,
                 <<"H", "e", "l", "p">>>>,
       reply |-> "I'm your AI voting assistant! I can help with: Registration, Voting process, Security, Election info, Technical support. What do you need help with?"],
      [words |-> <<<<"h", "e", "l", "l", "o">>,
                 <<"h", "i">>,
                 <<"h", "e", "y">>,
                 <<"g", "o", "o", "d", " ", "m", "o", "r", "n", "i", "n", "g">>,
                 <<"g", "o", "o", "d", " ", "a", "f", "t", "e", "r", "n", "o", "o", "n">>,
                 <<"g", "o", "o", "d", " ", "e", "v", "e", "n", "i", "n", "g">>,
                 <<"h", "o", "w", " ", "a", "r", "e", " ", "y", "o", "u">>>>,
       reply |-> "Hello! I'm your AI assistant for NeuroVote. How can I help you today? I can assist with voting, registration, or just chat about anything!"],
      [words |-> <<<<"t", "h", "a", "n", "k", " ", "y", "o", "u">>,
                 <<"t", "h", "a", "n", "k", "s">>,
                 <<"a", "p", "p", "r", "e", "c", "i", "a", "t", "e">>,
                 <<"g", "r", "a", "t", "e", "f", "u", "l">>>>,
       reply |-> "You're very welcome! I'm happy to help. Is there anything else you'd like to know about voting or the system?"],
      [words |-> <<<<"w", "h", "o", " ", "a", "r", "e", " ", "y", "o", "u">>,
                 <<"w", "h", "a", "t", " ", "a", "r", "e", " ", "y", "o", "u">>,
                 <<"y", "o", "u", "r", " ", "n", "a", "m", "e">>,
                 <<"a", "i">>,
                 <<"a", "r", "t", "i", "f", "i", "c", "i", "a", "l", " ", "i", "n", "t", "e", "l", "l", "i", "g", "e", "n", "c", "e">>,
                 <<"b", "o", "t">>>>,
       reply |-> "I'm an AI assistant designed specifically for NeuroVote! I help users with voting, registration, security questions, and general support. I'm here to make your voting experience smooth and enjoyable."]
    >>

DefaultReply ==
    "That's interesting! I'm primarily here to help with voting, but I'm happy to chat. Is there anything about the voting system you'd like to know, or do you have other questions?"

_get_fallback_response(user_message) ==
    LET message == lower(user_message)
        found == {k \in 1..Len(FallbackTable) :
                     any_word_in(FallbackTable[k].words, message)}
    IN  IF found = {} THEN DefaultReply
        ELSE FallbackTable[CHOOSE k \in found : \A j \in found : k <= j].reply

Messages ==
    {<<"h", "o", "w", " ", "d", "o", " ", "I", " ", "v", "o", "t", "e", "?">>,
     <<"H", "O", "W", " ", "D", "O", " ", "I", " ", "V", "O", "T", "E">>,
     <<"R", "e", "g", "i", "s", "t", "e", "r", " ", "m", "e">>,
     <<"r", "e", "g", "i", "s", "t", "e", "r", " ", "t", "o", " ", "v", "o", "t", "e">>,
     <<"s", "i", "g", "n", " ", "i", "n">>,
     <<"c", "h", "a", "n", "g", "e", " ", "v", "o", "t", "e">>,
     <<"h", "o", "w", " ", "l", "o", "n", "g">>,
     <<"i", "s", " ", "i", "t", " ", "s", "a", "f", "e">>,
     <<"H", "e", "l", "p">>,
     <<"t", "h", "i", "s">>,
     <<"t", "h", "a", "n", "k", "s">>,
     <<"a", " ", "b", "o", "t", "?">>,
     <<"x", "y", "z">>,
     <<>>}

\* What the call of the language model does: it raises, or it returns a
\* message with some content.
Contents == {"", "Open the election page and press Vote.", "I cannot help with that."}

llm_calls ==
    {[raised |-> TRUE, content |-> ""]}
        \cup {[raised |-> FALSE, content |-> c] : c \in Contents}

get_response_reply(user_message, call) ==
    IF llm = None THEN _get_fallback_response(user_message)
    ELSE IF call.raised THEN _get_fallback_response(user_message)
    ELSE call.content

get_response(user_message, call) ==
    /\ Len(responses) < MaxResponses
    /\ responses' = Append(responses,
                           [user_message |-> user_message,
                            reply |-> get_response_reply(user_message, call)])
    /\ UNCHANGED <<db, current_user, now, emitted, inflight, api_key, llm>>

GetResponse == \E user_message \in Messages, call \in llm_calls :
                   get_response(user_message, call)

\* The assistant as the module builds it: without a credential there is no
\* model; with one, the model is there unless its construction raised.
AssistInit ==
    /\ users = <<AdminUser>>
    /\ elections = <<>>
    /\ candidates = <<>>
    /\ votes = <<>>
    /\ current_user = [s \in Sessions |-> 0]
    /\ now = 0
    /\ emitted = <<>>
    /\ inflight = [r \in Slots |-> Idle]
    /\ api_key \in {None, "sk-test"}
    /\ llm \in IF api_key = None THEN {None} ELSE {None, "ChatOpenAI"}
    /\ responses = <<>>

AssistNext == GetResponse

AssistSpec == AssistInit /\ [][AssistNext]_vars


\* ================================================================ claims
Authenticated == {s \in Sessions : is_authenticated(s)}

Existing == 1..Len(elections)

\* The election window holds the clock and the election is active.
Open(e) ==
    /\ elections[e].is_active
    /\ elections[e].start_date <= now
    /\ now <= elections[e].end_date

VotesIn(e) == {i \in 1..Len(votes) : votes[i].election_id = e}

HasVoted(u, e) == \E i \in VotesIn(e) : votes[i].voter_id = u

\* ------------------------------------------------------------------- C1
\* C1: for all voters v and elections e, at most one committed Vote exists
\* for (v, e), also when vote requests for the same (v, e) overlap.
\* Checked under ConcSpec, where it fails: two overlapping requests both
\* pass the existing-vote read before either commits.
C1_OneVotePerVoterPerElection ==
    \A i, j \in 1..Len(votes) :
        (/\ votes[i].voter_id = votes[j].voter_id
         /\ votes[i].election_id = votes[j].election_id) => i = j

\* ------------------------------------------------------------------- C2
\* Election e has exactly the candidates a, named A, and b, named B, and
\* the only votes that name a or b are votes in e (the scenario's run holds
\* no votes but its own).
Scenario(e, a, b) ==
    /\ e \in Existing
    /\ election_candidates(e) = {a, b}
    /\ candidates[a].name = "A"
    /\ candidates[b].name = "B"
    /\ \A i \in 1..Len(votes) :
          votes[i].candidate_id \in {a, b} => votes[i].election_id = e

Tally(x, y) == [n \in {"A", "B"} |-> IF n = "A" THEN x ELSE y]

\* The only vote in e is u's, for candidate a.
OnlyVote(e, u, a) ==
    /\ Cardinality(VotesIn(e)) = 1
    /\ \A i \in VotesIn(e) : votes[i].voter_id = u /\ votes[i].candidate_id = a

C2_Outcomes ==
    \A s \in Authenticated, e \in ElectionIds, a, b \in 1..Len(candidates) :
        Scenario(e, a, b) =>
            /\ (Open(e) /\ VotesIn(e) = {}) =>
                  /\ results(e) = Tally(0, 0)
                  /\ vote_outcome(s, e, a) = "VoteCast"
            /\ OnlyVote(e, current_user[s], a) =>
                  /\ results(e) = Tally(1, 0)
                  /\ \A c \in CandidateIds : vote_outcome(s, e, c) = "AlreadyVoted"
            /\ (Open(e) /\ \E u \in UserIds \ {current_user[s]} : OnlyVote(e, u, a)) =>
                  vote_outcome(s, e, b) = "VoteCast"

\* A step that changes the votes: the first vote of the scenario, for A, or
\* the vote of another user for B, with the results they leave; it is never
\* a second vote of the user who cast the only vote.
C2_Steps ==
    (votes' # votes) =>
        \A s \in Authenticated, e \in ElectionIds, a, b \in 1..Len(candidates) :
            Scenario(e, a, b) =>
                /\ (Open(e) /\ VotesIn(e) = {} /\ vote(s, e, a)) =>
                      results(e)' = Tally(1, 0)
                /\ OnlyVote(e, current_user[s], a) =>
                      \A c \in CandidateIds : ~vote(s, e, c)
                /\ (/\ Open(e)
                    /\ \E u \in UserIds \ {current_user[s]} : OnlyVote(e, u, a)
                    /\ vote(s, e, b)) =>
                      results(e)' = Tally(1, 1)

\* C2: with requests served one at a time, in an open election with
\* candidates A and B: the first vote, for A, gives {A:1, B:0}; a second vote
\* by the same user, for any candidate, is answered AlreadyVoted, creates no
\* Vote and leaves the results; a vote by another user for B gives {A:1, B:1}.
C2_SequentialScenario == []C2_Outcomes /\ [][C2_Steps]_vars

\* A and B have one vote each, from different users, and the user logged in
\* is one of them.
C2_Witness ==
    \E s \in Authenticated, e \in Existing, a, b \in 1..Len(candidates) :
        /\ Scenario(e, a, b)
        /\ results(e) = Tally(1, 1)
        /\ HasVoted(current_user[s], e)
        /\ vote_outcome(s, e, b) = "AlreadyVoted"

C3_ClosedOutcome ==
    \A s \in Authenticated, e \in Existing, c \in CandidateIds :
        ~Open(e) =>
            vote_outcome(s, e, c) =
                IF HasVoted(current_user[s], e) THEN "AlreadyVoted"
                ELSE "ElectionClosed"

C3_CreatedWhileOpen ==
    /\ Len(votes') >= Len(votes)
    /\ \A i \in (Len(votes) + 1)..Len(votes') :
          votes'[i].election_id \in Existing /\ Open(votes'[i].election_id)

C4_CandidateBelongsToElection ==
    /\ \A i \in 1..Len(votes) :
          /\ votes[i].candidate_id \in 1..Len(candidates)
          /\ candidates[votes[i].candidate_id].election_id = votes[i].election_id
    /\ \A s \in Authenticated, e \in Existing, c \in CandidateIds :
          (/\ Open(e)
           /\ ~HasVoted(current_user[s], e)
           /\ c \notin election_candidates(e)) =>
              vote_outcome(s, e, c) = "InvalidCandidate"

\* ------------------------------------------------------------------- C5
\* C5: for every election e the results mapping gives each candidate c of e
\* the number of Votes cast for c, and its counts sum to the number of Votes
\* whose election is e.
C5_ResultsMatchVotes ==
    \A e \in Existing :
        /\ \A c \in election_candidates(e) :
              results(e)[candidates[c].name] = vote_count(c)
        /\ total_votes(e) = election_votes(e)

\* ------------------------------------------------------------------- C6
\* C6: creating an election with start >= end is answered InvalidWindow and
\* stores nothing, so every stored Election has start_date < end_date, and
\* every stored Election is active.
C6_WindowValid ==
    /\ \A e \in Existing :
          elections[e].start_date < elections[e].end_date /\ elections[e].is_active
    /\ \A s \in Authenticated, start, end \in DateStrings :
          (/\ is_admin(s)
           /\ ~ValueError(start) /\ ~ValueError(end)
           /\ strptime(start) >= strptime(end)) =>
              create_election_outcome(s, start, end, TRUE) = "InvalidWindow"

\* ------------------------------------------------------------------- C7
\* C7: no two stored Users share a username or an email; a registration
\* that repeats a username is answered DuplicateUsername, one that repeats
\* an email DuplicateEmail.
C7_DuplicatesReported ==
    /\ \A u, v \in UserIds :
          (users[u].username = users[v].username \/ users[u].email = users[v].email)
              => u = v
    /\ \A s \in Sessions \ Authenticated, n \in Usernames, m \in Emails,
          p \in Passwords :
          /\ (\E u \in UserIds : users[u].username = n) =>
                register_outcome(s, n, m, p, TRUE) = "DuplicateUsername"
          /\ (/\ \E u \in UserIds : users[u].email = m
              /\ ~\E u \in UserIds : users[u].username = n) =>
                register_outcome(s, n, m, p, TRUE) = "DuplicateEmail"

\* ------------------------------------------------------------------- C8
C8_NonAdminRefused ==
    /\ \A e \in Existing :
          elections[e].created_by \in UserIds /\ users[elections[e].created_by].is_admin
    /\ \A s \in Authenticated :
          ~users[current_user[s]].is_admin =>
              /\ \A start, end \in DateStrings, valid \in BOOLEAN :
                    create_election_outcome(s, start, end, valid) = "Unauthorized"
              /\ \A e \in ElectionIds, n \in CandidateNames, valid \in BOOLEAN :
                    manage_candidates_outcome(s, e, n, valid) = "Unauthorized"

\* A step that changes the elections or the candidates is no request of a
\* logged-in user who is no admin.
C8_NonAdminChangesNothing ==
    (<<elections, candidates>>' # <<elections, candidates>>) =>
        \A s \in Authenticated :
            ~users[current_user[s]].is_admin =>
                /\ \A start, end \in DateStrings, valid \in BOOLEAN :
                      ~create_election(s, start, end, valid)
                /\ \A e \in ElectionIds, n \in CandidateNames, valid \in BOOLEAN :
                      ~manage_candidates(s, e, n, valid)

\* C8: only a user with the admin flag creates an Election or adds a
\* Candidate: such a request from a logged-in user who is no admin is
\* answered Unauthorized and leaves the elections and the candidates as they
\* are, and every stored Election's creator is an admin.
C8_OnlyAdmins == []C8_NonAdminRefused /\ [][C8_NonAdminChangesNothing]_vars

\* A user who is no admin is logged in, and there is an election (with a
\* candidate) they could try to add to.
C8_Witness ==
    \E s \in Authenticated :
        /\ ~users[current_user[s]].is_admin
        /\ Len(elections) >= 1
        /\ Len(candidates) >= 1
        /\ manage_candidates_outcome(s, 1, "A", TRUE) = "Unauthorized"

\* ------------------------------------------------------------------- C9
ListedExactly ==
    /\ {active_elections[i] : i \in 1..Len(active_elections)} =
          {e \in Existing : /\ elections[e].is_active
                            /\ elections[e].start_date <= now
                            /\ now <= elections[e].end_date}
    /\ \A i, j \in 1..Len(active_elections) :
          active_elections[i] = active_elections[j] => i = j

\* C9, as the claim states it: the listing is exactly the elections that are
\* active with start_date <= now <= end_date, ordered by start time ascending.
C9_ListedSortedByStart ==
    /\ ListedExactly
    /\ \A i, j \in 1..Len(active_elections) :
          i < j => elections[active_elections[i]].start_date
                      <= elections[active_elections[j]].start_date

\* C9, amended: the listing is exactly the stored elections that are active
\* with start_date <= now <= end_date, each once, in the order of their ids.
C9_ListedInIdOrder ==
    /\ ListedExactly
    /\ \A i, j \in 1..Len(active_elections) :
          i < j => active_elections[i] < active_elections[j]

\* Two elections are listed, the later-starting one first.
C9_Witness ==
    /\ Len(active_elections) = 2
    /\ elections[active_elections[1]].start_date
          > elections[active_elections[2]].start_date

\* ------------------------------------------------------------------ C10
C10_VotesKept ==
    /\ Len(votes') >= Len(votes)
    /\ \A i \in 1..Len(votes) : votes'[i] = votes[i]
    /\ \A c \in CandidateIds : vote_count(c)' >= vote_count(c)

\* C10: the votes are append-only: no step of any route removes a Vote or
\* changes its voter, election or candidate, so no candidate's tally
\* decreases.
C10_AppendOnly == [][C10_VotesKept]_vars

\* Two votes are stored, and a user who cast one is logged in.
C10_Witness ==
    /\ Len(votes) >= 2
    /\ \E s \in Authenticated : \E i \in 1..Len(votes) :
          votes[i].voter_id = current_user[s]


\* ------------------------------------------------------------------ C11
\* A step publishes at most one event, only together with the commit of a
\* Vote, and the event carries that Vote's election and candidate and the
\* total given; a step that commits no Vote publishes nothing.
PublishesWith(total) ==
    /\ Len(emitted') \in {Len(emitted), Len(emitted) + 1}
    /\ \A i \in 1..Len(emitted) : emitted'[i] = emitted[i]
    /\ Len(emitted') = Len(emitted) + 1 =>
          /\ Len(votes') = Len(votes) + 1
          /\ emitted'[Len(emitted')] =
                [election_id |-> votes'[Len(votes')].election_id,
                 candidate_id |-> votes'[Len(votes')].candidate_id,
                 total_votes |-> total]
    /\ votes' = votes => emitted' = emitted

\* C11, as the claim states it: each successful vote publishes, after the
\* commit, exactly one event carrying the election id, the candidate id and
\* the new total of votes for that candidate (in that election); a failed
\* vote publishes none.
C11_EventCarriesCandidateTotal ==
    [][PublishesWith(
          Cardinality({i \in 1..Len(votes') :
              /\ votes'[i].election_id = votes'[Len(votes')].election_id
              /\ votes'[i].candidate_id = votes'[Len(votes')].candidate_id}))]_vars

\* C11, amended: each successful vote publishes, after the commit, exactly
\* one event carrying the election id, the candidate id and the new total
\* of votes of that election (of all its candidates); a failed vote
\* publishes none; a failure to publish leaves the committed Vote stored.
C11_EventCarriesElectionTotal ==
    [][PublishesWith(
          Cardinality({i \in 1..Len(votes') :
              votes'[i].election_id = votes'[Len(votes')].election_id}))]_vars

\* Two votes are stored; the first was published and the publishing of the
\* second failed, the Vote staying stored.
C11_Witness ==
    /\ Len(votes) = 2
    /\ Len(emitted) = 1
    /\ emitted[1] = [election_id |-> votes[1].election_id,
                     candidate_id |-> votes[1].candidate_id, total_votes |-> 1]


\* ------------------------------------------------------------------ C12
Admins == {s \in Authenticated : users[current_user[s]].is_admin}

C12_Outcomes ==
    /\ \A s \in Admins, e \in ElectionIds, n \in CandidateNames :
          /\ e \notin Existing =>
                \A valid \in BOOLEAN :
                    manage_candidates_outcome(s, e, n, valid) = "NotFound"
          /\ e \in Existing =>
                manage_candidates_outcome(s, e, n, TRUE) = "CandidateAdded"
    /\ \A c \in 1..Len(candidates) : candidates[c].election_id \in Existing

\* A step that changes the candidates appends one Candidate, of an election
\* that exists, and is no request for an absent election; the request of an
\* admin for election e and name n appends the Candidate n of e.
C12_Steps ==
    (candidates' # candidates) =>
        /\ Len(candidates') = Len(candidates) + 1
        /\ \A c \in 1..Len(candidates) : candidates'[c] = candidates[c]
        /\ candidates'[Len(candidates')].election_id \in Existing
        /\ \A s \in Admins, e \in ElectionIds, n \in CandidateNames :
              manage_candidates(s, e, n, TRUE) =>
                  /\ e \in Existing
                  /\ candidates'[Len(candidates')] = [name |-> n, election_id |-> e]

\* C12: adding a candidate to an absent election is answered NotFound and
\* stores no Candidate; an admin's request to add a candidate to an existing
\* election succeeds whatever the election's window and the clock (before
\* the start, inside the window, after the end), and the new Candidate
\* belongs to exactly that election.
C12_AddCandidate == []C12_Outcomes /\ [][C12_Steps]_vars

\* An admin is logged in; one election is over and has a candidate, another
\* has not started, and a candidate can be added to either.
C12_Witness ==
    \E s \in Admins, e, f \in Existing :
        /\ now > elections[e].end_date
        /\ now < elections[f].start_date
        /\ election_candidates(e) # {}
        /\ Len(candidates) < MaxCandidates
        /\ manage_candidates_outcome(s, e, "B", TRUE) = "CandidateAdded"
        /\ manage_candidates_outcome(s, f, "B", TRUE) = "CandidateAdded"



\* ------------------------------------------------------------------ C13
HowDoIVote == <<"h", "o", "w", " ", "d", "o", " ", "I", " ", "v", "o", "t", "e", "?">>

VotingGuidance == FallbackTable[2].reply

Unavailable(call) == llm = None \/ call.raised

C13_Fallback ==
    /\ api_key = None => llm = None
    /\ \A user_message \in Messages, call \in llm_calls :
          /\ Unavailable(call) =>
                get_response_reply(user_message, call)
                    = _get_fallback_response(user_message)
          /\ _get_fallback_response(user_message) # ""
    /\ _get_fallback_response(HowDoIVote) = VotingGuidance
    /\ llm = None =>
          \A k \in 1..Len(responses) :
              responses[k].reply = _get_fallback_response(responses[k].user_message)

C13_Calls ==
    \A user_message \in Messages, call \in llm_calls :
        (get_response(user_message, call) /\ Unavailable(call)) =>
            responses'[Len(responses')].reply = _get_fallback_response(user_message)

\* Every reply to "how do I vote?" is the voting guidance.
C13_AlwaysGuidance ==
    \A k \in 1..Len(responses) :
        responses[k].user_message = HowDoIVote =>
            /\ responses[k].reply # ""
            /\ responses[k].reply = VotingGuidance

\* C13: the assistant's get_response always returns a string; without a
\* credential, or when the call of the model fails, it returns the fallback
\* reply matched by keywords on the lower-cased message, the same reply for
\* the same message; and "how do I vote?" is answered by the non-empty
\* voting guidance whether or not the model is there.
C13_RespondGuidesWhateverBackend ==
    [](C13_Fallback /\ C13_AlwaysGuidance) /\ [][C13_Calls]_vars

\* The part that holds: the fallback whenever the model is absent or fails.
C13_FallbackWhenUnavailable == []C13_Fallback /\ [][C13_Calls]_vars

\* ------------------------------------------------------------------ C14
Matches(u, username, password) ==
    /\ u \in UserIds
    /\ users[u].username = username
    /\ users[u].password_hash = generate_password_hash(password)

C14_Outcomes ==
    /\ \A i \in 1..Len(votes) : votes[i].voter_id \in UserIds
    /\ \A s \in Sessions \ Authenticated :
          /\ \A e \in ElectionIds, c \in CandidateIds :
                vote_outcome(s, e, c) = "LoginRequired"
          /\ \A username \in Usernames, password \in Passwords :
                /\ login_outcome(s, username, password, TRUE) = "LoggedIn"
                      <=> \E u \in UserIds : Matches(u, username, password)
                /\ login_outcome(s, username, password, TRUE)
                      \in {"LoggedIn", "InvalidCredentials"}

\* A session that becomes a user's session was unauthenticated and is given
\* that user by a login with the user's name and password; a login that fails
\* leaves the sessions as they were.
C14_Sessions ==
    (current_user' # current_user) =>
        \A s \in Sessions :
            /\ (current_user'[s] # current_user[s] /\ current_user'[s] # 0) =>
                  /\ current_user[s] = 0
                  /\ \E username \in Usernames, password \in Passwords :
                        /\ Matches(current_user'[s], username, password)
                        /\ login(s, username, password, TRUE)
            /\ \A username \in Usernames, password \in Passwords :
                  login(s, username, password, TRUE)
                      => \E u \in UserIds : Matches(u, username, password)

\* A step that changes the votes appends one Vote of the user of an
\* authenticated session, which issued the request and stays that user's.
C14_Votes ==
    (votes' # votes) =>
        /\ Len(votes') = Len(votes) + 1
        /\ \A i \in 1..Len(votes) : votes'[i] = votes[i]
        /\ current_user' = current_user
        /\ \E s \in Authenticated, e \in ElectionIds, c \in CandidateIds :
              /\ vote(s, e, c)
              /\ votes'[Len(votes')].voter_id = current_user[s]
        /\ \A s \in Sessions, e \in ElectionIds, c \in CandidateIds :
              vote(s, e, c) => /\ s \in Authenticated
                               /\ votes'[Len(votes')].voter_id = current_user[s]

\* C14: every committed Vote's voter is the user authenticated in the session
\* that issued the request: a session becomes authenticated only by a login
\* whose username exists and whose password matches that user's stored hash,
\* a failed login leaves it unauthenticated, an unauthenticated session's
\* vote request is refused and creates no Vote, and no request creates a Vote
\* of a user other than its own session's.
C14_VoteOfSessionUser ==
    []C14_Outcomes /\ [][C14_Sessions /\ C14_Votes]_vars

\* A user who is not the first voter is logged in after the first voter's
\* session ended, both have a stored Vote, and the other user's password is
\* refused for a fresh session.
C14_Witness ==
    /\ Len(votes) = 2
    /\ votes[1].voter_id # votes[2].voter_id
    /\ \E s \in Authenticated :
          /\ current_user[s] = votes[2].voter_id
          /\ \E password \in Passwords :
                ~Matches(current_user[s], users[current_user[s]].username, password)

====
